---- MODULE Spec2Model ----
(***************************************************************************)
(* A model of books-to-scrape-rust (src/src/main.rs, book.rs, site_url.rs).*)
(*                                                                         *)
(* Data representation                                                     *)
(*   Option<T> / Result<T, _> : <<>> is None / Err(_), <<x>> is Some / Ok. *)
(*   text (String)            : a sequence of one-character strings.       *)
(*   relative path / href     : the string split at "/", a non-empty       *)
(*                              sequence of segments ("" is <<"">>,        *)
(*                              "../a" is <<"..", "a">>, "/a" is           *)
(*                              <<"", "a">>).  Segments hold no ':', '?',  *)
(*                              '#' and nothing that is percent-encoded.   *)
(*   Url                      : [host, path], path being the segments      *)
(*                              after the host's "/".                      *)
(*   detail Document          : the six elements Book::from_html selects.  *)
(*   listing Document         : the anchors "article.product_pod a[title]" *)
(*                              matches, in document order, each with its  *)
(*                              optional href.                             *)
(***************************************************************************)
EXTENDS Integers, Sequences, FiniteSets, Bags, TLC

VARIABLES
    site,       \* the catalog served: listing pages by index, detail pages by Url
    pc,         \* position of main
    count,      \* CatelogueUrlIterator.count
    fused,      \* the listing url iterator has returned None
    lwin,       \* listing Buffered queue (FuturesOrdered), oldest first
    consumed,   \* history: the items take_while has looked at, in order
    pages,      \* Vec<scraper::Html> collected from the listing stream
    dropped,    \* history: the pages fetched with success that the dropped stream held
    book_urls,  \* the flat sequence of detail urls
    dnext,      \* how many of book_urls the detail stream has pulled
    dwin,       \* detail Buffered queue (FuturesOrdered), oldest first
    books,      \* Vec<Result<Book>>
    requests,   \* history: bag of the Urls a GET request was made to
    reported,   \* the logged "Number of books scraped", -1 before the log line
    html,       \* the detail Document handed to Book::from_html on its own
    result,     \* what that call returned
    arg,        \* the function called on its own and its argument
    ret         \* what that call returned

vars == <<site, pc, count, fused, lwin, consumed, pages, dropped, book_urls,
          dnext, dwin, books, requests, reported, html, result, arg, ret>>

-----------------------------------------------------------------------------
(* Bounds and program constants *)

MaxPages == 3           \* listing pages of a small catalog
BigPages == 60          \* listing pages of the large catalog
PageLimit == 50         \* main.rs:188  self.count < 50
ListingWindow == 10     \* main.rs:288  .buffered(10)
DetailWindow == 10      \* main.rs:301  .buffered(10)

None == <<>>
Some(x) == <<x>>
IsSome(o) == o # <<>>
Unwrap(o) == o[1]

\* F(x), with x evaluated once
Bind(x, F(_)) == CHOOSE r \in {F(v) : v \in {x}} : TRUE

Max(a, b) == IF a > b THEN a ELSE b
Front(s) == SubSeq(s, 1, Len(s) - 1)
Last(s) == s[Len(s)]

-----------------------------------------------------------------------------
(* Urls: url::Url::parse / Url::join on the inputs of the data representation *)

HOMEPAGE == [host |-> "books.toscrape.com", path |-> <<"">>]

\* strip_prefix("../"): the prefix "../" is removed once
TrimOnce(p) == IF Len(p) >= 2 /\ p[1] = ".." THEN Tail(p) ELSE p

\* str::trim_start_matches("../"): the prefix "../" is removed while it matches.
RECURSIVE trim_start_matches(_)
trim_start_matches(p) ==
    IF Len(p) >= 2 /\ p[1] = ".." THEN trim_start_matches(Tail(p)) ELSE p

\* Dot-segment removal of the URL path state: ".." pops, "." is dropped, and
\* either of them in last position leaves a trailing "/".
RECURSIVE NormalizePath(_, _)
NormalizePath(stack, segs) ==
    IF segs = <<>> THEN stack
    ELSE LET s == Head(segs)
             last == Len(segs) = 1
             popped == IF stack = <<>> THEN stack ELSE Front(stack)
         IN  IF s = ".."
             THEN NormalizePath(IF last THEN Append(popped, "") ELSE popped, Tail(segs))
             ELSE IF s = "."
             THEN NormalizePath(IF last THEN Append(stack, "") ELSE stack, Tail(segs))
             ELSE NormalizePath(Append(stack, s), Tail(segs))

RECURSIVE SkipEmpty(_)
SkipEmpty(segs) ==
    IF segs # <<>> /\ Head(segs) = "" THEN SkipEmpty(Tail(segs)) ELSE segs

\* Url::join(base, rel) -> Result<Url, ParseError>
UrlJoin(base, rel) ==
    IF rel = <<"">> THEN Some(base)
    ELSE IF Len(rel) >= 3 /\ rel[1] = "" /\ rel[2] = ""
    THEN \* "//authority/path": scheme-relative; an empty host is an error
         LET auth == SkipEmpty(rel)
         IN  IF auth = <<>> THEN None
             ELSE Some([host |-> Head(auth),
                        path |-> NormalizePath(<<>>, IF Len(auth) = 1 THEN <<"">> ELSE Tail(auth))])
    ELSE IF Len(rel) >= 2 /\ rel[1] = ""
    THEN \* "/path": path-absolute
         Some([host |-> base.host, path |-> NormalizePath(<<>>, Tail(rel))])
    ELSE Some([host |-> base.host, path |-> NormalizePath(<<>>, Front(base.path) \o rel)])

\* a builder whose base is the catalogue directory, not the site root
BuildFromCatalogue(path) ==
    UrlJoin([host |-> "books.toscrape.com", path |-> <<"catalogue", "">>], path)

build_books_toscrape_url(path) == UrlJoin(HOMEPAGE, path)

build_book_page_url(path) ==
    LET dir == build_books_toscrape_url(<<"catalogue", "">>)
    IN  IF IsSome(dir) THEN UrlJoin(Unwrap(dir), trim_start_matches(path)) ELSE None

\* format!("catalogue/page-{}.html", page), split at "/"
CataloguePath(page) == <<"catalogue", "page-" \o ToString(page) \o ".html">>

build_catelogue_url(page) == Unwrap(build_books_toscrape_url(CataloguePath(page)))

\* an iterator without the limit on count
CatelogueNextUnbounded(cnt) ==
    [count |-> cnt + 1, item |-> build_books_toscrape_url(CataloguePath(cnt + 1))]

\* an iterator that builds the url before it increments: page-0 comes first
CatelogueNextPost(cnt) ==
    LET c == cnt + 1
    IN  [count |-> c,
         item  |-> IF c < PageLimit THEN build_books_toscrape_url(CataloguePath(cnt)) ELSE None]

\* CatelogueUrlIterator::next: the incremented count and the Option<Url> returned
CatelogueNext(cnt) ==
    LET c == cnt + 1
    IN  [count |-> c,
         item  |-> IF c < PageLimit THEN build_books_toscrape_url(CataloguePath(c)) ELSE None]

-----------------------------------------------------------------------------
(* Record extraction *)

Digits == <<"0", "1", "2", "3", "4", "5", "6", "7", "8", "9">>
is_ascii_digit(c) == c \in {Digits[i] : i \in 1..10}
DigitValue(c) == Bind(c, LAMBDA ch : (CHOOSE i \in 1..10 : Digits[i] = ch) - 1)
U32Max == <<4, 2, 9, 4, 9, 6, 7, 2, 9, 5>>

\* a parser that does not skip: the digits must come first
SkipNothing(t0) == t0

RECURSIVE skip_while_not_digit(_)
skip_while_not_digit(t0) ==
    Bind(t0, LAMBDA t :
        IF t # <<>> /\ ~is_ascii_digit(Head(t)) THEN skip_while_not_digit(Tail(t)) ELSE t)

RECURSIVE take_while_digit(_)
take_while_digit(t0) ==
    Bind(t0, LAMBDA t :
        IF t # <<>> /\ is_ascii_digit(Head(t))
        THEN <<Head(t)>> \o take_while_digit(Tail(t)) ELSE <<>>)

RECURSIVE StripZeros(_)
StripZeros(d) == IF Len(d) > 1 /\ Head(d) = 0 THEN StripZeros(Tail(d)) ELSE d

RECURSIVE LexLeq(_, _)
LexLeq(a, b) ==
    IF a = <<>> THEN TRUE
    ELSE IF Head(a) # Head(b) THEN Head(a) < Head(b)
    ELSE LexLeq(Tail(a), Tail(b))

RECURSIVE DecimalValue(_, _)
DecimalValue(acc, d) ==
    IF d = <<>> THEN acc ELSE DecimalValue(acc * 10 + Head(d), Tail(d))

\* a parse that keeps the nine low digits of a number that does not fit
ParseU32Truncate(run) ==
    IF run = <<>> THEN None
    ELSE Bind(StripZeros([i \in 1..Len(run) |-> DigitValue(run[i])]), LAMBDA d :
             IF Len(d) > Len(U32Max) \/ (Len(d) = Len(U32Max) /\ ~LexLeq(d, U32Max))
             THEN Some(DecimalValue(0, SubSeq(d, Len(d) - 8, Len(d))))
             ELSE Some(DecimalValue(0, d)))

\* str::parse::<u32>() of a string of ASCII digits: empty and overflow are errors
ParseU32(run) ==
    IF run = <<>> THEN None
    ELSE Bind(StripZeros([i \in 1..Len(run) |-> DigitValue(run[i])]), LAMBDA d :
             IF Len(d) > Len(U32Max) \/ (Len(d) = Len(U32Max) /\ ~LexLeq(d, U32Max))
             THEN None
             ELSE Some(DecimalValue(0, d)))

parse_int(input) ==
    Bind(input, LAMBDA t : Bind(take_while_digit(skip_while_not_digit(t)), ParseU32))

unwrap_or(r, dflt) == Bind(r, LAMBDA v : IF IsSome(v) THEN Unwrap(v) ELSE dflt)

\* Each extractor reads the first element its selector matches (an Option here).
extract_title(page) == IF IsSome(page.title) THEN Some(Unwrap(page.title)) ELSE None
extract_upc(page) == IF IsSome(page.upc) THEN Some(Unwrap(page.upc)) ELSE None
extract_price(page) == IF IsSome(page.price) THEN Some(Unwrap(page.price)) ELSE None

extract_available(page) ==
    Bind(page.instock, LAMBDA text :
        IF IsSome(text) THEN Some(unwrap_or(parse_int(Unwrap(text)), 0)) ELSE None)

extract_reviews(page) ==
    Bind(page.lastrow, LAMBDA text :
        IF IsSome(text) THEN Some(unwrap_or(parse_int(Unwrap(text)), 0)) ELSE None)

ratings == <<"Zero", "One", "Two", "Three", "Four", "Five">>

\* a rating read from the token that follows "star-rating", not from the last
ExtractRatingSecond(page) ==
    IF IsSome(page.star) /\ Len(Unwrap(page.star)) >= 2
    THEN LET rating == Unwrap(page.star)[2]
         IN  IF \E p \in 1..Len(ratings) : ratings[p] = rating
             THEN Some((CHOOSE p \in 1..Len(ratings) : ratings[p] = rating) - 1)
             ELSE None
    ELSE None

\* page.star is the class attribute of the star-rating element split at ' '
extract_rating(page) ==
    IF IsSome(page.star)
    THEN LET rating == Last(Unwrap(page.star))
         IN  IF \E p \in 1..Len(ratings) : ratings[p] = rating
             THEN Some((CHOOSE p \in 1..Len(ratings) : ratings[p] = rating) - 1)
             ELSE None
    ELSE None

\* the six extractions, in argument order
Extracted(page) ==
    <<extract_title(page), extract_upc(page), extract_price(page),
      extract_available(page), extract_reviews(page), extract_rating(page)>>

\* from_html with a price that defaults to "" instead of failing
FromHtmlPartial(page) ==
    Bind(Extracted(page), LAMBDA e :
        IF \E i \in {1, 2, 4, 5, 6} : ~IsSome(e[i]) THEN None
        ELSE Some([title |-> Unwrap(e[1]), upc |-> Unwrap(e[2]),
                   price |-> unwrap_or(e[3], ""),
                   available |-> Unwrap(e[4]), reviews |-> Unwrap(e[5]),
                   rating |-> Unwrap(e[6])]))

\* Book::from_html: `?` returns the first error, in argument order
from_html(page) ==
    Bind(Extracted(page), LAMBDA e :
        IF ~IsSome(e[1]) THEN None
        ELSE IF ~IsSome(e[2]) THEN None
        ELSE IF ~IsSome(e[3]) THEN None
        ELSE IF ~IsSome(e[4]) THEN None
        ELSE IF ~IsSome(e[5]) THEN None
        ELSE IF ~IsSome(e[6]) THEN None
        ELSE Some([title |-> Unwrap(e[1]), upc |-> Unwrap(e[2]), price |-> Unwrap(e[3]),
                   available |-> Unwrap(e[4]), reviews |-> Unwrap(e[5]),
                   rating |-> Unwrap(e[6])]))

-----------------------------------------------------------------------------
(* The catalog served to the run *)

Chars19 == <<"I", "n", " ", "s", "t", "o", "c", "k", " ", "(", "1", "9", " ",
             "a", "v", "a", "i", "l", "a", "b", "l", "e", ")">>
CharsOut == <<"O", "u", "t", " ", "o", "f", " ", "s", "t", "o", "c", "k">>

GoodDoc(t) ==
    [title |-> Some(t), upc |-> Some("a897fe39b1053632"), price |-> Some("51.77"),
     instock |-> Some(Chars19), lastrow |-> Some(<<"0">>),
     star |-> Some(<<"star-rating", "Three">>)]
NoPriceDoc(t) == [GoodDoc(t) EXCEPT !.price = None]

UrlA == [host |-> "books.toscrape.com", path |-> <<"catalogue", "a_1", "index.html">>]
UrlB == [host |-> "books.toscrape.com", path |-> <<"catalogue", "b_2", "index.html">>]

AnchorA    == Some(<<"..", "..", "a_1", "index.html">>)
AnchorA2   == Some(<<"a_1", "index.html">>)
AnchorB    == Some(<<"..", "b_2", "index.html">>)
AnchorNone == None                      \* an anchor without href
AnchorBad  == Some(<<"", "", "">>)      \* href "//": does not resolve

PageOdd  == <<AnchorA, AnchorNone, AnchorB>>
PageEven == <<AnchorBad, AnchorA2>>
PageSample(n) == IF n % 2 = 1 THEN PageOdd ELSE PageEven

\* A catalog: which of the first MaxPages listing pages exist (the others
\* answer 404) and what the two detail urls answer; or the large catalog of
\* BigPages listing pages, each linking one detail page of its own.
DetailKinds == {"404", "good", "noprice"}
Catalogs ==
    {[big |-> FALSE, ok |-> o, a |-> x, b |-> y] :
        o \in SUBSET (1..MaxPages), x \in DetailKinds, y \in {"404", "good"}}
    \cup {[big |-> TRUE, ok |-> {}, a |-> "good", b |-> "good"]}

BigHref(n) == <<"..", "book_" \o ToString(n), "index.html">>
BigUrls == {Unwrap(build_book_page_url(BigHref(n))) : n \in 1..BigPages}
ListingUrl == [n \in 1..Max(BigPages, MaxPages) |-> build_catelogue_url(n)]

ListingPage(cat, n) ==
    IF cat.big THEN (IF n <= BigPages THEN Some(<<Some(BigHref(n))>>) ELSE None)
    ELSE IF n \in cat.ok THEN Some(PageSample(n)) ELSE None

DetailDoc(kind, t) ==
    IF kind = "good" THEN Some(GoodDoc(t))
    ELSE IF kind = "noprice" THEN Some(NoPriceDoc(t)) ELSE None

DetailPage(cat, url) ==
    IF cat.big THEN (IF url \in BigUrls THEN Some(GoodDoc("big")) ELSE None)
    ELSE IF url = UrlA THEN DetailDoc(cat.a, "A")
    ELSE IF url = UrlB THEN DetailDoc(cat.b, "B") ELSE None

\* get_html on a listing url / on a detail url: Err on a non-success status
GetListing(cat, url) ==
    Bind({n \in DOMAIN ListingUrl : ListingUrl[n] = url}, LAMBDA hit :
        IF hit = {} THEN None ELSE ListingPage(cat, CHOOSE n \in hit : TRUE))

GetDetail(cat, url) == DetailPage(cat, url)

-----------------------------------------------------------------------------
(* The listing stream: iter(urls).map(get_html).buffered(10).take_while(ok)
   .map(unwrap).collect() *)

RemoveAt(s, k) == SubSeq(s, 1, k - 1) \o SubSeq(s, k + 1, Len(s))

\* the future get_html(url) enters the queue: the request is made
PushListing(s, nx) ==
    [s EXCEPT !.count = nx.count,
              !.win = Append(@, [idx |-> nx.count, url |-> Unwrap(nx.item), ready |-> FALSE]),
              !.requests = @ (+) SetToBag({Unwrap(nx.item)})]

\* an unordered queue (buffer_unordered): any completed output may leave
NextOutgoingUnordered(win) ==
    IF \E i \in 1..Len(win) : win[i].ready
    THEN CHOOSE i \in 1..Len(win) : win[i].ready /\ \A j \in 1..(i - 1) : ~win[j].ready
    ELSE 0

\* FuturesOrdered::poll_next: the position of the output to return, 0 when
\* Pending; outputs leave in the order the futures were pushed.
NextOutgoing(win) == IF win # <<>> /\ win[1].ready THEN 1 ELSE 0

\* a take_while that lets every item through
TakeWhileAll(page) == TRUE

TakeWhileOk(page) == IsSome(page)

\* the indices of the queue's completed fetches that returned a page
FetchedOk(cat, win) ==
    {win[i].idx : i \in {j \in 1..Len(win) : win[j].ready /\ IsSome(GetListing(cat, win[j].url))}}

\* a queue that is refilled once it holds the limit, not below it
RECURSIVE FillListingOver(_)
FillListingOver(s0) ==
    Bind(s0, LAMBDA s :
        IF Len(s.win) <= ListingWindow /\ ~s.fused
        THEN Bind(CatelogueNext(s.count), LAMBDA nx :
                 IF IsSome(nx.item)
                 THEN FillListingOver(PushListing(s, nx))
                 ELSE [s EXCEPT !.count = nx.count, !.fused = TRUE])
        ELSE s)

\* Buffered::poll_next, first half: pull urls while the queue is short
RECURSIVE FillListing(_)
FillListing(s0) ==
    Bind(s0, LAMBDA s :
        IF Len(s.win) < ListingWindow /\ ~s.fused
        THEN Bind(CatelogueNext(s.count), LAMBDA nx :
                 IF IsSome(nx.item)
                 THEN FillListing(PushListing(s, nx))
                 ELSE [s EXCEPT !.count = nx.count, !.fused = TRUE])
        ELSE s)

\* take_while and map(unwrap) on the output of queue position k, then collect
Consume(cat, f, k) ==
    Bind(GetListing(cat, f.win[k].url), LAMBDA page :
        [f EXCEPT !.win = RemoveAt(@, k),
                  !.consumed = Append(@, [idx |-> f.win[k].idx, ok |-> IsSome(page)]),
                  !.taken = TakeWhileOk(page),
                  !.pages = IF IsSome(page) THEN Append(@, Unwrap(page)) ELSE @])

\* a stream that skips failed pages (filter) instead of ending at the first
RECURSIVE ListingPollSkip(_, _)
ListingPollSkip(cat, s) ==
    Bind(FillListing(s), LAMBDA f :
        IF f.win = <<>> THEN [f EXCEPT !.status = "ended"]
        ELSE IF NextOutgoing(f.win) = 0 THEN f
        ELSE ListingPollSkip(cat, Consume(cat, f, NextOutgoing(f.win))))

\* a stream whose queue outlives the collect: its fetches stay in flight
RECURSIVE ListingPollKeep(_, _)
ListingPollKeep(cat, s) ==
    Bind(FillListing(s), LAMBDA f :
        IF f.win = <<>> THEN [f EXCEPT !.status = "ended"]
        ELSE IF NextOutgoing(f.win) = 0 THEN f
        ELSE Bind(Consume(cat, f, NextOutgoing(f.win)), LAMBDA g :
                 IF ~g.taken
                 THEN [g EXCEPT !.status = "ended", !.dropped = FetchedOk(cat, g.win)]
                 ELSE IF ~Last(g.consumed).ok
                 THEN [g EXCEPT !.status = "panic"]
                 ELSE ListingPollKeep(cat, g)))

\* a stream whose queue is refilled once more after the first Err was seen
RECURSIVE ListingPollRefill(_, _)
ListingPollRefill(cat, s) ==
    Bind(FillListing(s), LAMBDA f :
        IF f.win = <<>> THEN [f EXCEPT !.status = "ended"]
        ELSE IF NextOutgoing(f.win) = 0 THEN f
        ELSE Bind(Consume(cat, f, NextOutgoing(f.win)), LAMBDA g :
                 IF ~g.taken
                 THEN Bind(FillListing(g), LAMBDA h :
                          [h EXCEPT !.status = "ended", !.dropped = FetchedOk(cat, h.win),
                                    !.win = <<>>])
                 ELSE IF ~Last(g.consumed).ok
                 THEN [g EXCEPT !.status = "panic"]
                 ELSE ListingPollRefill(cat, g)))

\* One poll of the collect future, run until it is Pending or complete:
\* Buffered fills its queue and returns the next output in order; take_while
\* ends the stream at the first Err; unwrap panics on an Err it is handed.
RECURSIVE ListingPoll(_, _)
ListingPoll(cat, s) ==
    Bind(FillListing(s), LAMBDA f :
        IF f.win = <<>> THEN [f EXCEPT !.status = "ended"]
        ELSE IF NextOutgoing(f.win) = 0 THEN f
        ELSE Bind(Consume(cat, f, NextOutgoing(f.win)), LAMBDA g :
                 IF ~g.taken
                 THEN [g EXCEPT !.status = "ended", !.dropped = FetchedOk(cat, g.win),
                                !.win = <<>>]
                 ELSE IF ~Last(g.consumed).ok
                 THEN [g EXCEPT !.status = "panic"]
                 ELSE ListingPoll(cat, g)))

ListingState ==
    [count |-> count, fused |-> fused, win |-> lwin, consumed |-> consumed,
     pages |-> pages, dropped |-> dropped, requests |-> requests, taken |-> TRUE,
     status |-> "pending"]

AfterListing(s) ==
    /\ count' = s.count
    /\ fused' = s.fused
    /\ lwin' = s.win
    /\ consumed' = s.consumed
    /\ pages' = s.pages
    /\ dropped' = s.dropped
    /\ requests' = s.requests
    /\ pc' = IF s.status = "pending" THEN "listing"
             ELSE IF s.status = "ended" THEN "links" ELSE "panic"
    /\ UNCHANGED <<site, book_urls, dnext, dwin, books, reported, html, result,
                   arg, ret>>

\* main reaches `.collect().await`: the first poll
StartListing ==
    /\ pc = "start"
    /\ \E s \in {ListingPoll(site, ListingState)} : AfterListing(s)

\* the fetch at position k of the listing queue returns; main is polled
ListingArrive(k) ==
    /\ pc = "listing"
    /\ k \in 1..Len(lwin)
    /\ ~lwin[k].ready
    /\ \E s \in {ListingPoll(site, [ListingState EXCEPT !.win[k].ready = TRUE])} :
          AfterListing(s)

-----------------------------------------------------------------------------
(* Link extraction and the detail stream *)

RECURSIVE FlatMap(_)
FlatMap(ps0) ==
    Bind(ps0, LAMBDA ps : IF ps = <<>> THEN <<>> ELSE Head(ps) \o FlatMap(Tail(ps)))

\* a map_while: the anchors after the first one without href are lost
RECURSIVE FilterHrefStop(_)
FilterHrefStop(as0) ==
    Bind(as0, LAMBDA as :
        IF as = <<>> \/ ~IsSome(Head(as)) THEN <<>>
        ELSE <<Unwrap(Head(as))>> \o FilterHrefStop(Tail(as)))

\* filter_map(|d| d.value().attr("href"))
RECURSIVE FilterHref(_)
FilterHref(as0) ==
    Bind(as0, LAMBDA as :
        IF as = <<>> THEN <<>>
        ELSE (IF IsSome(Head(as)) THEN <<Unwrap(Head(as))>> ELSE <<>>)
                 \o FilterHref(Tail(as)))

\* filter_map(|x| build_book_page_url(x).ok())
RECURSIVE FilterUrl(_)
FilterUrl(hs0) ==
    Bind(hs0, LAMBDA hs :
        IF hs = <<>> THEN <<>>
        ELSE Bind(build_book_page_url(Head(hs)), LAMBDA u :
                 (IF IsSome(u) THEN <<Unwrap(u)>> ELSE <<>>) \o FilterUrl(Tail(hs))))

BookUrls(ps) == FilterUrl(FilterHref(FlatMap(ps)))

\* |page| Book::from_html(&page?)
MapBook(page) == Bind(page, LAMBDA p : IF IsSome(p) THEN from_html(Unwrap(p)) ELSE None)

RECURSIVE FillDetail(_, _)
FillDetail(urls, s0) ==
    Bind(s0, LAMBDA s :
        IF Len(s.win) < DetailWindow /\ s.dnext < Len(urls)
        THEN FillDetail(urls, [s EXCEPT
                 !.dnext = @ + 1,
                 !.win = Append(@, [idx |-> s.dnext + 1, url |-> urls[s.dnext + 1],
                                    ready |-> FALSE]),
                 !.requests = @ (+) SetToBag({urls[s.dnext + 1]})])
        ELSE s)

\* map(|page| Book::from_html(&page?)) on the output of queue position k, then
\* collect
Collect(cat, f, k) ==
    [f EXCEPT !.win = RemoveAt(@, k),
              !.books = Append(@, MapBook(GetDetail(cat, f.win[k].url)))]

\* a collect that ends at the first Err (as collecting into Result<Vec<_>>)
RECURSIVE DetailPollAbort(_, _, _)
DetailPollAbort(cat, urls, s) ==
    Bind(FillDetail(urls, s), LAMBDA f :
        IF f.win = <<>> THEN [f EXCEPT !.status = "ended"]
        ELSE IF NextOutgoing(f.win) = 0 THEN f
        ELSE Bind(Collect(cat, f, NextOutgoing(f.win)), LAMBDA g :
                 IF ~IsSome(Last(g.books))
                 THEN [g EXCEPT !.win = <<>>, !.status = "ended"]
                 ELSE DetailPollAbort(cat, urls, g)))

\* a detail stream over an unordered queue (buffer_unordered)
RECURSIVE DetailPollUnordered(_, _, _)
DetailPollUnordered(cat, urls, s) ==
    Bind(FillDetail(urls, s), LAMBDA f :
        IF f.win = <<>> THEN [f EXCEPT !.status = "ended"]
        ELSE IF NextOutgoingUnordered(f.win) = 0 THEN f
        ELSE DetailPollUnordered(cat, urls, Collect(cat, f, NextOutgoingUnordered(f.win))))

\* One poll of the second collect future, run until Pending or complete.
RECURSIVE DetailPoll(_, _, _)
DetailPoll(cat, urls, s) ==
    Bind(FillDetail(urls, s), LAMBDA f :
        IF f.win = <<>> THEN [f EXCEPT !.status = "ended"]
        ELSE IF NextOutgoing(f.win) = 0 THEN f
        ELSE DetailPoll(cat, urls, Collect(cat, f, NextOutgoing(f.win))))

DetailState ==
    [dnext |-> dnext, win |-> dwin, books |-> books, requests |-> requests,
     status |-> "pending"]

AfterDetail(s) ==
    /\ dnext' = s.dnext
    /\ dwin' = s.win
    /\ books' = s.books
    /\ requests' = s.requests
    /\ pc' = IF s.status = "ended" THEN "report" ELSE "detail"
    /\ UNCHANGED <<site, count, fused, lwin, consumed, pages, dropped, reported,
                   html, result, arg, ret>>

\* main builds book_urls and reaches the second `.collect().await`
ExtractLinks ==
    /\ pc = "links"
    /\ \E urls \in {BookUrls(pages)} :
          /\ book_urls' = urls
          /\ \E s \in {DetailPoll(site, urls, DetailState)} : AfterDetail(s)

\* the fetch at position k of the detail queue returns; main is polled
DetailArrive(k) ==
    /\ pc = "detail"
    /\ k \in 1..Len(dwin)
    /\ ~dwin[k].ready
    /\ UNCHANGED book_urls
    /\ \E s \in {DetailPoll(site, book_urls, [DetailState EXCEPT !.win[k].ready = TRUE])} :
          AfterDetail(s)

\* log::info!("Number of books scraped: {}", books.len())
Report ==
    /\ pc = "report"
    /\ reported' = Len(books)
    /\ pc' = "done"
    /\ UNCHANGED <<site, count, fused, lwin, consumed, pages, dropped, book_urls,
                   dnext, dwin, books, requests, html, result, arg, ret>>

Idle ==
    /\ count = 0
    /\ fused = FALSE
    /\ lwin = <<>>
    /\ consumed = <<>>
    /\ pages = <<>>
    /\ dropped = {}
    /\ book_urls = <<>>
    /\ dnext = 0
    /\ dwin = <<>>
    /\ books = <<>>
    /\ requests = EmptyBag
    /\ reported = -1
    /\ result = None
    /\ ret = None

Init ==
    /\ site \in Catalogs
    /\ pc = "start"
    /\ html = GoodDoc("A")
    /\ arg = <<>>
    /\ Idle

Next ==
    \/ StartListing
    \/ \E k \in 1..ListingWindow : ListingArrive(k)
    \/ ExtractLinks
    \/ \E k \in 1..DetailWindow : DetailArrive(k)
    \/ Report

Spec == Init /\ [][Next]_vars

\* every started fetch returns, and main runs whenever it is polled
FairSpec == Spec /\ WF_vars(Next)

-----------------------------------------------------------------------------
(* Book::from_html on its own, over a family of detail Documents *)

StockTexts == {Chars19, CharsOut, <<>>, <<"(", "0", ")">>}
ReviewTexts == {<<"0">>, <<"1", "2">>, <<"n", "o">>}
StarClasses == {<<"star-rating", "Three">>, <<"star-rating", "Zero">>,
                <<"star-rating", "Unknown">>, <<"star-rating">>,
                <<"star-rating", "Five", "">>}

Docs ==
    [title   : {None, Some("A Light in the Attic")},
     upc     : {None, Some("a897fe39b1053632")},
     price   : {None, Some("51.77")},
     instock : {None} \cup {Some(t) : t \in StockTexts},
     lastrow : {None} \cup {Some(t) : t \in ReviewTexts},
     star    : {None} \cup {Some(c) : c \in StarClasses}]

InitBook ==
    /\ site = [big |-> FALSE, ok |-> {}, a |-> "404", b |-> "404"]
    /\ pc = "from_html"
    /\ html \in Docs
    /\ arg = <<>>
    /\ Idle

FromHtml ==
    /\ pc = "from_html"
    /\ result' = from_html(html)
    /\ pc' = "returned"
    /\ UNCHANGED <<site, count, fused, lwin, consumed, pages, dropped, book_urls,
                   dnext, dwin, books, requests, reported, html, arg, ret>>

NextBook == FromHtml

SpecBook == InitBook /\ [][NextBook]_vars

-----------------------------------------------------------------------------
(* Properties *)

NoDigit(text) == \A i \in 1..Len(text) : ~is_ascii_digit(text[i])

FourSucceed(page) ==
    /\ IsSome(extract_title(page))
    /\ IsSome(extract_upc(page))
    /\ IsSome(extract_price(page))
    /\ IsSome(extract_rating(page))

\* C3: available and reviews never abort a Record: whenever title, upc, price
\* and rating are extracted, from_html returns a Record, whose available
\* (reviews) is 0 when the stock element (last row cell) is absent or its text
\* holds no digit.
C3_AvailableReviewsNeverAbort ==
    (pc = "returned" /\ FourSucceed(html)) =>
        /\ IsSome(result)
        /\ (~IsSome(html.instock) \/ NoDigit(Unwrap(html.instock)))
               => Unwrap(result).available = 0
        /\ (~IsSome(html.lastrow) \/ NoDigit(Unwrap(html.lastrow)))
               => Unwrap(result).reviews = 0

\* C4: from_html returns a Record only when title, upc, price and rating are
\* all extracted, and the Record then carries exactly the extracted values; if
\* one of the four fails the result is an error and no Record is produced.
C4_FourFieldsRequired ==
    pc = "returned" =>
        /\ ~FourSucceed(html) => result = None
        /\ IsSome(result) =>
              /\ Unwrap(result).title = Unwrap(html.title)
              /\ Unwrap(result).upc = Unwrap(html.upc)
              /\ Unwrap(result).price = Unwrap(html.price)
              /\ Unwrap(result).rating \in 0..5
              /\ ratings[Unwrap(result).rating + 1] = Last(Unwrap(html.star))

C4_Witness ==
    /\ pc = "returned"
    /\ ~IsSome(html.price)
    /\ IsSome(html.title) /\ IsSome(html.upc) /\ IsSome(extract_rating(html))
    /\ IsSome(html.instock) /\ IsSome(html.lastrow)
    /\ result = None

-----------------------------------------------------------------------------
(* The listing walk *)

ListingDone == pc \in {"links", "detail", "report", "done"}
LinksDone == pc \in {"detail", "report", "done"}

\* the smallest generated index whose fetch fails, PageLimit when none does
FailingPages == {n \in 1..(PageLimit - 1) : ~IsSome(ListingPage(site, n))}
FirstFail ==
    CHOOSE n \in 1..PageLimit :
        /\ n = PageLimit \/ ~IsSome(ListingPage(site, n))
        /\ \A m \in 1..(n - 1) : IsSome(ListingPage(site, m))

InFlight(win) == Cardinality({i \in 1..Len(win) : ~win[i].ready})

\* C1: the listing Documents collected are at every moment the Documents of
\* pages 1, 2, ... in index order, never reaching the first failing index f,
\* and once the walk is over they are exactly those of pages 1..f-1 (all
\* generated pages when none fails).
C1_PagesUpToFirstFailure ==
    /\ Len(pages) <= FirstFail - 1
    /\ \A i \in 1..Len(pages) : pages[i] = Unwrap(ListingPage(site, i))
    /\ ListingDone => Len(pages) = FirstFail - 1

\* a walk that ended at f > 1 while a later page had been fetched with success
C1_Witness ==
    /\ ListingDone
    /\ FirstFail > 1
    /\ \E i \in dropped : i > FirstFail

\* C5: the walker consumes the outcomes in index order without a gap, every
\* outcome before the last one consumed is a success, and the Documents
\* yielded are those successes: page i is yielded only after all pages j < i
\* were consumed as successes, whatever completed first.
C5_ConsumedInIndexOrder ==
    /\ \A k \in 1..Len(consumed) : consumed[k].idx = k
    /\ \A k \in 1..(Len(consumed) - 1) : consumed[k].ok
    /\ Len(pages) = Cardinality({k \in 1..Len(consumed) : consumed[k].ok})
    /\ \A i \in 1..Len(lwin) : lwin[i].idx > Len(consumed)

\* a later page has completed with success while an earlier failing page is
\* still in flight, after a first page was yielded
C5_Witness ==
    /\ pc = "listing"
    /\ Len(pages) >= 1
    /\ \E i, j \in 1..Len(lwin) :
          /\ i < j
          /\ ~lwin[i].ready /\ ~IsSome(GetListing(site, lwin[i].url))
          /\ lwin[j].ready /\ IsSome(GetListing(site, lwin[j].url))

\* C6: at most ListingWindow (10) listing fetches and at most DetailWindow
\* (10) detail fetches are in flight, in every reachable state.
C6_WindowsBounded ==
    /\ InFlight(lwin) <= ListingWindow
    /\ Len(lwin) <= ListingWindow
    /\ InFlight(dwin) <= DetailWindow
    /\ Len(dwin) <= DetailWindow

\* both windows have been full: ten detail fetches in flight after a listing
\* walk that saw more pages than the window holds
C6_Witness ==
    /\ InFlight(dwin) = DetailWindow
    /\ Len(pages) > ListingWindow
    /\ Len(book_urls) > DetailWindow

-----------------------------------------------------------------------------
(* The detail pipeline and the report *)

Occurrences(u, seq) == Cardinality({p \in 1..Len(seq) : seq[p] = u})

\* the Record a detail url yields on its own: its fetch, then its extraction
OwnRecord(u) ==
    LET page == DetailPage(site, u)
    IN  IF IsSome(page) THEN from_html(Unwrap(page)) ELSE None

Succeeded == {p \in 1..Len(book_urls) : IsSome(OwnRecord(book_urls[p]))}

\* C2: the reported count is the number of detail urls whose fetch and Record
\* extraction both succeeded.
C2_CountIsSuccesses ==
    pc = "done" => reported = Cardinality(Succeeded)

\* C7: when the detail pipeline is over every discovered detail url has been
\* requested, has an entry in the collection, and the entry of each url whose
\* own fetch and extraction succeed is its Record, whatever happened to the
\* other urls.
C7_FailuresStayLocal ==
    pc \in {"report", "done"} =>
        /\ dnext = Len(book_urls)
        /\ Len(books) = Len(book_urls)
        /\ \A p \in 1..Len(book_urls) :
              /\ CopiesIn(book_urls[p], requests) >= Occurrences(book_urls[p], book_urls)
              /\ IsSome(OwnRecord(book_urls[p])) => books[p] = OwnRecord(book_urls[p])

\* a finished run in which a Record follows a failed fetch and another one
\* follows a failed extraction
C7_Witness ==
    /\ pc = "done"
    /\ \E p, q \in 1..Len(books) :
          /\ p < q
          /\ books[p] = None
          /\ IsSome(books[q])
    /\ \E p \in 1..Len(books) : books[p] = None /\ IsSome(DetailPage(site, book_urls[p]))

\* C8: no url is requested a second time within a run.
C8_EachUrlOnce ==
    \A u \in BagToSet(requests) : CopiesIn(u, requests) = 1

\* How far main is from the end: its position, then the fetches that may
\* still return at that position (not yet requested, or in flight).
Position ==
    CASE pc = "start"   -> 5
      [] pc = "listing" -> 4
      [] pc = "links"   -> 3
      [] pc = "detail"  -> 2
      [] pc = "report"  -> 1
      [] OTHER          -> 0
Outstanding ==
    CASE pc = "listing" -> (IF fused THEN 0 ELSE PageLimit - 1 - count) + InFlight(lwin)
      [] pc = "detail"  -> (Len(book_urls) - dnext) + InFlight(dwin)
      [] OTHER          -> 0

\* C9: with every started fetch returning and main running when polled (weak
\* fairness of Next), the run ends in the reporting state: until then a step
\* is always possible, every step brings the end nearer (position first, then
\* outstanding fetches), and no step panics; and when listing page 1 fails the
\* run ends with no detail request made and zero reported.
C9_RunCompletes ==
    /\ [](pc = "done" \/ ENABLED Next)
    /\ [][\/ Position' < Position
          \/ Position' = Position /\ Outstanding' < Outstanding]_vars
    /\ [](pc # "panic" /\ Outstanding >= 0)
    /\ [](pc = "done" => reported >= 0)
    /\ [](pc = "done" /\ ~IsSome(ListingPage(site, 1)) =>
             /\ reported = 0
             /\ book_urls = <<>>
             /\ dnext = 0
             /\ BagToSet(requests) \subseteq {ListingUrl[n] : n \in DOMAIN ListingUrl})

\* The direct statement of the termination part of C9, which follows from the
\* first three conjuncts of C9_RunCompletes and holds of FairSpec as well.
RunTerminates == <>(pc = "done")

C9_Witness ==
    /\ pc = "done"
    /\ ~IsSome(ListingPage(site, 1))
    /\ IsSome(ListingPage(site, 2))
    /\ reported = 0
    /\ 2 \in dropped

-----------------------------------------------------------------------------
(* Link extraction *)

\* the anchors of pages ps, by <<page position, anchor position>>
AnchorAt(ps) == UNION {{<<k, j>> : j \in 1..Len(ps[k])} : k \in 1..Len(ps)}
Before(x, y) == x[1] < y[1] \/ (x[1] = y[1] /\ x[2] < y[2])
Resolves(ps, pos) ==
    LET a == ps[pos[1]][pos[2]]
    IN  IsSome(a) /\ IsSome(build_book_page_url(Unwrap(a)))

\* urls holds, for each anchor of ps with an href that resolves, the resolved
\* href at the anchor's rank among those anchors, and nothing else
LinksOf(ps, urls) ==
    LET kept == {pos \in AnchorAt(ps) : Resolves(ps, pos)}
    IN  /\ Len(urls) = Cardinality(kept)
        /\ \A pos \in kept :
              urls[1 + Cardinality({q \in kept : Before(q, pos)})]
                  = Unwrap(build_book_page_url(Unwrap(ps[pos[1]][pos[2]])))

\* C10: the step that builds the detail urls leaves in book_urls the resolved
\* hrefs of the anchors that have an href that resolves, in page order and
\* then document order; the other anchors are left out and cost no other link
\* its place; the sequence does not change afterwards.
C10_LinksInOrder ==
    [][/\ pc = "links" => LinksOf(pages, book_urls')
       /\ pc # "links" => book_urls' = book_urls]_vars

\* links of two pages, one with an anchor without href before a link, the
\* other with an href that does not resolve before a link
C10_Witness ==
    /\ LinksDone
    /\ Len(book_urls) >= 3
    /\ \E pos, q \in AnchorAt(pages) :
          ~IsSome(pages[pos[1]][pos[2]]) /\ Resolves(pages, q) /\ Before(pos, q)
    /\ \E pos, q \in AnchorAt(pages) :
          /\ IsSome(pages[pos[1]][pos[2]])
          /\ ~Resolves(pages, pos)
          /\ Resolves(pages, q) /\ Before(pos, q)

-----------------------------------------------------------------------------
(* Run-to-run determinism *)

\* What the catalog alone determines: the listing Documents before the first
\* failing index, their links, and the outcome of each link on its own.
RECURSIVE PagesBefore(_, _)
PagesBefore(cat, n) ==
    IF n <= 1 THEN <<>>
    ELSE Append(PagesBefore(cat, n - 1), Unwrap(ListingPage(cat, n - 1)))
ExpectedPages == PagesBefore(site, FirstFail)
\* urls and records are the links of those Documents and their outcomes
Determined(urls, records) ==
    /\ LinksOf(ExpectedPages, urls)
    /\ records = [p \in 1..Len(urls) |-> OwnRecord(urls[p])]

\* C11: two runs against the same catalog give the same Records and the same
\* count, whatever the completion order: each step appends to the collection
\* what the urls at the new positions yield on their own and leaves the
\* earlier entries as they are, and the step that ends the detail stage
\* leaves a collection that depends on the catalog only (the catalog does not
\* change in a run), whose length is the count then reported.
C11_SameCatalogSameResult ==
    [][/\ SubSeq(books', 1, Len(books)) = books
       /\ \A p \in (Len(books) + 1)..Len(books') : books'[p] = OwnRecord(book_urls'[p])
       /\ pc' \in {"report", "done"} => Determined(book_urls', books')
       /\ pc' = "done" => reported' = Len(books')]_vars

\* two Records collected from a catalog with a failing detail page, while a
\* detail fetch has returned before an earlier one
C11_Witness ==
    /\ pc = "detail"
    /\ \E p, q \in 1..Len(books) : p # q /\ IsSome(books[p]) /\ IsSome(books[q])
    /\ \E i, j \in 1..Len(dwin) : i < j /\ ~dwin[i].ready /\ dwin[j].ready
    /\ \E p \in 1..Len(book_urls) : OwnRecord(book_urls[p]) = None

-----------------------------------------------------------------------------
(* The url builders, the iterator and the text parsers called on their own *)

MaxCalls == 52          \* calls made to one iterator
MaxUp == 3              \* leading "../" of an href
MaxLen == 4             \* length of an enumerated text

PageNumbers == {0, 1, 2, 3, 9, 10, 48, 49, 50, 51, 100, 981, 65535, 2147483647}

\* relative paths, split at "/": plain ones, "" and ones with dot segments
PlainPaths == {<<"a">>, <<"abc">>, <<"multiple", "paths">>, <<"foo_1", "index.html">>,
               <<"its-only-the-himalayas_981", "index.html">>, <<"catalogue", "">>}
DotPaths == {<<"">>, <<"..">>, <<".">>, <<".", "..", "x">>, <<"a", "..", "..", "x">>,
             <<"a", "..", "x">>, <<"a", ".">>, <<"...", "x">>, <<"..a", "x">>}
RelPaths == PlainPaths \cup DotPaths

RECURSIVE Ups(_)
Ups(k) == IF k = 0 THEN <<>> ELSE <<"..">> \o Ups(k - 1)
Hrefs == {Ups(k) \o p : k \in 0..MaxUp, p \in RelPaths}

\* p and "/" + p
BasePaths == RelPaths \cup {<<"">> \o p : p \in RelPaths}

\* a call: the function, and its argument as a number (n), a string (s) or an
\* optional list of strings (o)
CallN(f, n) == [fn |-> f, n |-> n, s |-> <<>>, o |-> None]
CallS(f, t) == [fn |-> f, n |-> 0, s |-> t, o |-> None]
CallO(f, c) == [fn |-> f, n |-> 0, s |-> <<>>, o |-> c]

\* texts: every text of at most MaxLen characters of TextChars, the texts of
\* test_parse_int, and digit runs around the limits of u32
TextChars == {"a", "(", "0", "1", "9"}
RECURSIVE TextsOfLen(_)
TextsOfLen(n) ==
    IF n = 0 THEN {<<>>}
    ELSE {Append(t, c) : t \in TextsOfLen(n - 1), c \in TextChars}
CharsOut0 == CharsOut \o <<" ", "(", "0", " ", "a", "v", "a", "i", "l", "a", "b", "l", "e", ")">>
CharsNone == <<"I", "n", " ", "s", "t", "o", "c", "k", " ", "(", " ", "a", "v", "a", "i",
               "l", "a", "b", "l", "e", ")">>
Run(ds) == [i \in 1..Len(ds) |-> Digits[ds[i] + 1]]
LimitRuns ==
    {Run(<<9, 9, 9, 9, 9, 9, 9, 9, 9>>), Run(<<2, 1, 4, 7, 4, 8, 3, 6, 4, 7>>),
     Run(<<0, 0, 0, 2, 1, 4, 7, 4, 8, 3, 6, 4, 7>>), Run(<<0, 0, 0, 0, 0, 0, 0, 0, 0, 0, 0, 1, 2>>),
     Run(<<4, 2, 9, 4, 9, 6, 7, 2, 9, 6>>), Run(<<4, 2, 9, 4, 9, 6, 7, 3, 0, 0>>),
     Run(<<5, 0, 0, 0, 0, 0, 0, 0, 0, 0>>), Run(<<0, 4, 2, 9, 4, 9, 6, 7, 2, 9, 6>>),
     Run(<<1, 0, 0, 0, 0, 0, 0, 0, 0, 0, 0>>), Run(<<9, 9, 9, 9, 9, 9, 9, 9, 9, 9, 9, 9>>)}
Texts ==
    UNION {TextsOfLen(n) : n \in 0..MaxLen}
    \cup {Chars19, CharsOut, CharsOut0, CharsNone}
    \cup LimitRuns
    \cup {<<"(">> \o r \o <<" ", "1", ")">> : r \in LimitRuns}

TextCalls ==
    {CallS(f, t) : f \in {"parse_int", "extract_available", "extract_reviews"}, t \in Texts}

\* class attributes of the star-rating element, split at ' ': "star-rating"
\* followed by at most two more tokens ("" is the token two spaces enclose)
ClassTokens == {"Zero", "One", "Two", "Three", "Four", "Five", "Unknown", "three", "Six",
                "star-rating", ""}
StarAttrs ==
    {<<"star-rating">>}
    \cup {<<"star-rating", a>> : a \in ClassTokens}
    \cup {<<"star-rating", a, b>> : a, b \in ClassTokens}
RatingCalls ==
    {CallO(f, c) : f \in {"extract_rating", "from_html"},
                   c \in {None} \cup {Some(a) : a \in StarAttrs}}

UrlCalls ==
    {CallN("build_catelogue_url", n) : n \in PageNumbers}
    \cup {CallS("build_book_page_url", h) : h \in Hrefs}
    \cup {CallS("build_books_toscrape_url", p) : p \in BasePaths}
    \cup {CallN("next", 0)}

InitFn ==
    /\ site = [big |-> FALSE, ok |-> {}, a |-> "404", b |-> "404"]
    /\ pc = "call"
    /\ html = GoodDoc("A")
    /\ arg \in UrlCalls \cup TextCalls \cup RatingCalls
    /\ Idle

Returned(r) ==
    /\ ret' = r
    /\ pc' = "returned"
    /\ UNCHANGED <<site, fused, lwin, consumed, pages, dropped, book_urls, dnext,
                   dwin, books, requests, reported, html, result, arg>>

CallBuildCatelogueUrl ==
    /\ pc = "call" /\ arg.fn = "build_catelogue_url"
    /\ Returned(Some(build_catelogue_url(arg.n)))
    /\ UNCHANGED count

CallBuildBookPageUrl ==
    /\ pc = "call" /\ arg.fn = "build_book_page_url"
    /\ Returned(build_book_page_url(arg.s))
    /\ UNCHANGED count

CallBuildBooksToscrapeUrl ==
    /\ pc = "call" /\ arg.fn = "build_books_toscrape_url"
    /\ Returned(build_books_toscrape_url(arg.s))
    /\ UNCHANGED count

\* after build_books_toscrape_url(p), for a p that does not start with "/":
\* build_books_toscrape_url("/" + p)
CallBuildBooksToscrapeUrlSlash ==
    /\ pc = "returned" /\ arg.fn = "build_books_toscrape_url"
    /\ ~(Len(arg.s) >= 2 /\ arg.s[1] = "")
    /\ result' = build_books_toscrape_url(<<"">> \o arg.s)
    /\ pc' = "returned2"
    /\ UNCHANGED <<site, count, fused, lwin, consumed, pages, dropped, book_urls, dnext,
                   dwin, books, requests, reported, html, arg, ret>>

\* one more call of next() on the iterator made by CatelogueUrlIterator::new()
CallNext ==
    /\ pc \in {"call", "returned"}
    /\ arg.fn = "next"
    /\ count < MaxCalls
    /\ \E nx \in {CatelogueNext(count)} :
          /\ count' = nx.count
          /\ Returned(nx.item)

CallParseInt ==
    /\ pc = "call" /\ arg.fn = "parse_int"
    /\ Returned(parse_int(arg.s))
    /\ UNCHANGED count

\* extract_available on a page whose stock-status element has the text arg.s
CallExtractAvailable ==
    /\ pc = "call" /\ arg.fn = "extract_available"
    /\ Returned(extract_available([instock |-> Some(arg.s)]))
    /\ UNCHANGED count

\* extract_reviews on a page whose last table row cell has the text arg.s
CallExtractReviews ==
    /\ pc = "call" /\ arg.fn = "extract_reviews"
    /\ Returned(extract_reviews([lastrow |-> Some(arg.s)]))
    /\ UNCHANGED count

\* extract_rating on a page whose star-rating element, if any, has class arg.o
CallExtractRating ==
    /\ pc = "call" /\ arg.fn = "extract_rating"
    /\ Returned(extract_rating([star |-> arg.o]))
    /\ UNCHANGED count

\* from_html on a complete book page but for its star-rating element
CallFromHtml ==
    /\ pc = "call" /\ arg.fn = "from_html"
    /\ Returned(from_html([html EXCEPT !.star = arg.o]))
    /\ UNCHANGED count

NextFn ==
    \/ CallExtractRating
    \/ CallFromHtml
    \/ CallParseInt
    \/ CallExtractAvailable
    \/ CallExtractReviews
    \/ CallBuildCatelogueUrl
    \/ CallBuildBookPageUrl
    \/ CallBuildBooksToscrapeUrl
    \/ CallBuildBooksToscrapeUrlSlash
    \/ CallNext

SpecFn == InitFn /\ [][NextFn]_vars

\* the run, and the functions called on their own
InitAll == Init \/ InitFn
NextAll == Next \/ NextFn
SpecAll == InitAll /\ [][NextAll]_vars

Base(path) == [host |-> "books.toscrape.com", path |-> path]
PageUrl(n) == Base(<<"catalogue", "page-" \o ToString(n) \o ".html">>)

-----------------------------------------------------------------------------
(* The permissive digit extractor *)

DigitOf(c) ==
    CASE c = "0" -> 0 [] c = "1" -> 1 [] c = "2" -> 2 [] c = "3" -> 3 [] c = "4" -> 4
      [] c = "5" -> 5 [] c = "6" -> 6 [] c = "7" -> 7 [] c = "8" -> 8 [] c = "9" -> 9

DigitPositions(t) == {i \in 1..Len(t) : t[i] \in {"0", "1", "2", "3", "4", "5", "6", "7", "8", "9"}}
FirstDigit(t) == CHOOSE i \in DigitPositions(t) : \A j \in DigitPositions(t) : i <= j
\* the last position of the maximal run of digits that starts at FirstDigit
RunEnd(t) ==
    CHOOSE j \in FirstDigit(t)..Len(t) :
        /\ \A k \in FirstDigit(t)..j : k \in DigitPositions(t)
        /\ (j + 1) \notin DigitPositions(t)
\* the first position of the run that is not a leading zero (the run's last
\* position when the run is all zeros)
FirstSignificant(t) ==
    CHOOSE i \in FirstDigit(t)..RunEnd(t) :
        /\ \A k \in FirstDigit(t)..(i - 1) : t[k] = "0"
        /\ t[i] # "0" \/ i = RunEnd(t)
Significant(t) == [k \in 1..(RunEnd(t) - FirstSignificant(t) + 1) |-> DigitOf(t[FirstSignificant(t) + k - 1])]

RECURSIVE NumberOf(_, _)
NumberOf(ds, n) == IF n = 0 THEN 0 ELSE NumberOf(ds, n - 1) * 10 + ds[n]

\* the run denotes a number below 10^9, or a ten-digit number up to 2^31 - 1
Small(t) ==
    \/ Len(Significant(t)) <= 9
    \/ /\ Len(Significant(t)) = 10
       /\ NumberOf(Significant(t), 9) < 214748364
          \/ (NumberOf(Significant(t), 9) = 214748364 /\ Significant(t)[10] <= 7)

\* C13: parse_int skips the leading non-digits, takes the maximal run of
\* digits that follows and returns the number it denotes (for the runs whose
\* number is at most 2^31 - 1); a text without digit gives an error, and then
\* extract_available and extract_reviews give 0.
C13_FirstDigitRun ==
    (pc = "returned" /\ arg.fn \in {"parse_int", "extract_available", "extract_reviews"}) =>
        /\ (arg.fn = "parse_int" /\ DigitPositions(arg.s) = {}) => ret = None
        /\ (arg.fn # "parse_int" /\ DigitPositions(arg.s) = {}) => ret = Some(0)
        /\ (DigitPositions(arg.s) # {} /\ Small(arg.s)) =>
              ret = Some(NumberOf(Significant(arg.s), Len(Significant(arg.s))))

\* "In stock (19 available)" has given 19
C13_Witness ==
    /\ pc = "returned"
    /\ arg.fn = "parse_int"
    /\ arg.s = Chars19
    /\ ret = Some(19)

-----------------------------------------------------------------------------
(* The rating *)

IsRatingWord(w) == w \in {"Zero", "One", "Two", "Three", "Four", "Five"}
RatingOf(w) ==
    CASE w = "Zero" -> 0 [] w = "One" -> 1 [] w = "Two" -> 2
      [] w = "Three" -> 3 [] w = "Four" -> 4 [] w = "Five" -> 5

\* C14: extract_rating returns the position in Zero..Five of the last
\* space-separated token of the class attribute, a number in 0..5, and an
\* error when the element is missing or that token is not in the list; on
\* such an error from_html returns no Record, otherwise the Record carries
\* that rating.
C14_RatingFromLastToken ==
    (pc = "returned" /\ arg.fn \in {"extract_rating", "from_html"}) =>
        LET known == IsSome(arg.o) /\ IsRatingWord(Last(Unwrap(arg.o)))
        IN  /\ ~known => ret = None
            /\ (known /\ arg.fn = "extract_rating") =>
                  ret = Some(RatingOf(Last(Unwrap(arg.o))))
            /\ (known /\ arg.fn = "from_html") =>
                  /\ IsSome(ret)
                  /\ Unwrap(ret).rating = RatingOf(Last(Unwrap(arg.o)))
            /\ (IsSome(ret) /\ arg.fn = "extract_rating") => Unwrap(ret) \in 0..5

\* class "star-rating Three" has given 3
C14_Witness ==
    /\ pc = "returned"
    /\ arg.fn = "extract_rating"
    /\ arg.o = Some(<<"star-rating", "Three">>)
    /\ ret = Some(3)

-----------------------------------------------------------------------------
(* Detail urls *)

\* the number of leading "../" of an href, and the path that follows them
LeadingUps(h) ==
    CHOOSE k \in 0..(Len(h) - 1) :
        /\ \A i \in 1..k : h[i] = ".."
        /\ k = Len(h) - 1 \/ h[k + 1] # ".."
Remainder(h) == SubSeq(h, LeadingUps(h) + 1, Len(h))
HasDotSegment(p) == \E i \in 1..Len(p) : p[i] \in {".", ".."}

\* C15 as stated: for every href of k leading "../" followed by a relative
\* path p, build_book_page_url returns base/catalogue/p, inside catalogue/.
C15_AlwaysInsideCatalogue ==
    (pc = "returned" /\ arg.fn = "build_book_page_url") =>
        ret = Some(Base(<<"catalogue">> \o Remainder(arg.s)))

\* C15, amended: for every href of k leading "../" followed by a relative
\* path p that holds no "." or ".." segment, build_book_page_url returns
\* base/catalogue/p, whatever k; for any p it returns a url of the site.
C15_PlainPathInsideCatalogue ==
    (pc = "returned" /\ arg.fn = "build_book_page_url") =>
        /\ IsSome(ret)
        /\ Unwrap(ret).host = HOMEPAGE.host
        /\ ~HasDotSegment(Remainder(arg.s)) =>
              ret = Some(Base(<<"catalogue">> \o Remainder(arg.s)))

\* "../../../foo_1/index.html" has given base/catalogue/foo_1/index.html
C15_Witness ==
    /\ pc = "returned"
    /\ arg.fn = "build_book_page_url"
    /\ arg.s = <<"..", "..", "..", "foo_1", "index.html">>
    /\ ret = Some(Base(<<"catalogue", "foo_1", "index.html">>))

-----------------------------------------------------------------------------
(* Site urls *)

\* C16: for a relative path p that does not start with "/",
\* build_books_toscrape_url("/" + p) returns what build_books_toscrape_url(p)
\* returned, and it is base/p (for a p without dot segments, p itself under
\* the root).
C16_LeadingSlashSameUrl ==
    (pc = "returned2" /\ arg.fn = "build_books_toscrape_url") =>
        /\ IsSome(ret)
        /\ result = ret
        /\ Unwrap(ret).host = HOMEPAGE.host
        /\ ~HasDotSegment(arg.s) => ret = Some(Base(arg.s))

\* "multiple/paths" and "/multiple/paths" have both given base/multiple/paths
C16_Witness ==
    /\ pc = "returned2"
    /\ arg.s = <<"multiple", "paths">>
    /\ ret = Some(Base(<<"multiple", "paths">>))
    /\ result = Some(Base(<<"multiple", "paths">>))

-----------------------------------------------------------------------------
(* The generator's bound *)

\* the page index of a listing url, and the indices of the pages requested
ListingIndex ==
    [u \in {ListingUrl[n] : n \in DOMAIN ListingUrl} |->
        CHOOSE n \in DOMAIN ListingUrl : ListingUrl[n] = u]
ListingRequests == {ListingIndex[u] : u \in BagToSet(requests) \cap DOMAIN ListingIndex}

-----------------------------------------------------------------------------
(* Look-ahead past the end of the catalog *)

Min(a, b) == IF a < b THEN a ELSE b
FailureConsumed == \E k \in 1..Len(consumed) : ~consumed[k].ok

\* C18: when a listing page fails, f being the first, no listing page above
\* f + 9 is ever requested and no listing page is requested twice; and from
\* the moment the failure of f has been consumed the queue is gone and the
\* pages requested are 1..f+9 (up to the generator's last), for good: no
\* fetch was started after the failure.
C18_LookAheadBounded ==
    FailingPages # {} =>
        /\ \A n \in ListingRequests :
              /\ n <= FirstFail + ListingWindow - 1
              /\ CopiesIn(ListingUrl[n], requests) = 1
        /\ FailureConsumed =>
              /\ ListingDone
              /\ lwin = <<>>
              /\ Last(consumed).idx = FirstFail
              /\ ListingRequests = 1..Min(FirstFail + ListingWindow - 1, PageLimit - 1)

\* the walk ended at page 3 after two pages were yielded: page 12 was
\* requested, page 13 was not
C18_Witness ==
    /\ pc = "done"
    /\ FirstFail = 3
    /\ FailureConsumed
    /\ 12 \in ListingRequests
    /\ 13 \notin ListingRequests

-----------------------------------------------------------------------------
(* The two stages *)

DetailRequests == BagToSet(requests) \ {ListingUrl[n] : n \in DOMAIN ListingUrl}
DetailStarted == dnext > 0 \/ dwin # <<>> \/ books # <<>> \/ DetailRequests # {}

\* C19: a detail fetch is started only when the listing walk is over (the
\* first failure consumed or the generator exhausted), its queue gone and all
\* accepted Documents collected; listing and detail fetches are never in
\* flight together, and before the links are built nothing of the detail
\* stage exists.
C19_StagesSequential ==
    /\ ~(InFlight(lwin) > 0 /\ InFlight(dwin) > 0)
    /\ ~LinksDone => ~DetailStarted /\ book_urls = <<>>
    /\ DetailStarted =>
          /\ LinksDone
          /\ lwin = <<>>
          /\ FailureConsumed \/ fused
          /\ Len(pages) = FirstFail - 1
          /\ Len(consumed) = Len(pages) + (IF FailureConsumed THEN 1 ELSE 0)

\* detail fetches in flight after a walk that ended on a failure while pages
\* fetched ahead were waiting in its queue
C19_Witness ==
    /\ pc = "detail"
    /\ InFlight(dwin) >= 2
    /\ FailureConsumed
    /\ dropped # {}
    /\ lwin = <<>>

-----------------------------------------------------------------------------
(* Numbers that do not fit u32 *)

\* the run denotes a number above 2^32 - 1 = 4294967295
ExceedsU32(t) ==
    \/ Len(Significant(t)) > 10
    \/ /\ Len(Significant(t)) = 10
       /\ LET hi == NumberOf(Significant(t), 5)
              lo == NumberOf([i \in 1..5 |-> Significant(t)[5 + i]], 5)
          IN  hi > 42949 \/ (hi = 42949 /\ lo > 67295)

RECURSIVE DigitsOf(_)
DigitsOf(v) == IF v < 10 THEN <<v>> ELSE Append(DigitsOf(v \div 10), v % 10)

\* C20: when the first run of digits denotes a number above 2^32 - 1,
\* parse_int returns an error and extract_available / extract_reviews give 0;
\* and a number that is returned is the one the run denotes, digit for digit
\* (or, from the extractors, the default 0): none comes from an overflow.
C20_OverflowIsError ==
    (/\ pc = "returned"
     /\ arg.fn \in {"parse_int", "extract_available", "extract_reviews"}
     /\ DigitPositions(arg.s) # {}) =>
        /\ (ExceedsU32(arg.s) /\ arg.fn = "parse_int") => ret = None
        /\ (ExceedsU32(arg.s) /\ arg.fn # "parse_int") => ret = Some(0)
        /\ IsSome(ret) =>
              \/ DigitsOf(Unwrap(ret)) = Significant(arg.s)
              \/ arg.fn # "parse_int" /\ ExceedsU32(arg.s) /\ Unwrap(ret) = 0

\* "(4294967296 1)" as the stock text has given 0
C20_Witness ==
    /\ pc = "returned"
    /\ arg.fn = "extract_available"
    /\ arg.s = <<"(", "4", "2", "9", "4", "9", "6", "7", "2", "9", "6", " ", "1", ")">>
    /\ ret = Some(0)

====
